---- MODULE Spec2Model ----
(***************************************************************************)
(* LeadDashboard (src/web/src/app/page.tsx): a React component holding     *)
(* five session fields (search, selectedNiche, selectedCountry, sortKey,   *)
(* sortDirection) and five memoised derived values (uniqueNiches,          *)
(* uniqueCountries, scoredLeads, filteredLeads, aggregate) over a static   *)
(* imported dataset `leads`.  Every event handler sets session fields and  *)
(* the component renders again, recomputing the memos whose dependencies   *)
(* changed; an action below is a handler together with that render.        *)
(*                                                                         *)
(* Representation.                                                         *)
(*  - A JavaScript string is the sequence of its UTF-16 code units, so     *)
(*    that trim, toLowerCase, includes and the default ordering of         *)
(*    Array.prototype.sort are computed, not assumed.  toLowerCase is      *)
(*    modelled on the code units below U+0100 and on white space.          *)
(*  - A JavaScript number that may be fractional (averageViews, the        *)
(*    intermediate values of opportunityScore, a comparator's result, a    *)
(*    median) is an IEEE-754 binary64 value, and +, -, *, /, Math.min and  *)
(*    Math.round are computed with the rounding of the standard; so is a   *)
(*    number that may be NaN (score, medianScore, medianViews).  Numbers   *)
(*    that are integers below 2^31 whatever the dataset (subscribers, a    *)
(*    view count, their sums) are TLA+ integers.                           *)
(***************************************************************************)
EXTENDS Integers, Sequences, FiniteSets

VARIABLES
    leads,            \* the imported dataset (static)
    search,           \* useState("")
    selectedNiche,    \* useState("All")
    selectedCountry,  \* useState("All")
    sortKey,          \* useState("opportunity")
    sortDirection,    \* useState("desc")
    uniqueNiches,     \* useMemo(..., [])
    uniqueCountries,  \* useMemo(..., [])
    scoredLeads,      \* useMemo(..., [])
    filteredLeads,    \* useMemo(..., [scoredLeads, search, ..., sortDirection])
    aggregate         \* useMemo(..., [filteredLeads])

vars == <<leads, search, selectedNiche, selectedCountry, sortKey, sortDirection,
          uniqueNiches, uniqueCountries, scoredLeads, filteredLeads, aggregate>>

\* Longest dataset explored.
MaxLeads == 3

-----------------------------------------------------------------------------
(* Sequences *)

Range(s) == {s[i] : i \in 1..Len(s)}

RECURSIVE SumSeq(_)
SumSeq(s) == IF s = <<>> THEN 0 ELSE Head(s) + SumSeq(Tail(s))

-----------------------------------------------------------------------------
(* Strings *)

\* The code units String.prototype.trim removes: WhiteSpace (TAB, VT, FF, SP,
\* NBSP, the Unicode space separators, ZWNBSP) and LineTerminator (LF, CR, LS, PS).
WhiteSpace == {9, 11, 12, 32, 160, 5760, 8239, 8287, 12288, 65279} \cup (8192..8202)
LineTerminator == {10, 13, 8232, 8233}

\* String.prototype.toLowerCase, per code unit: the capital letters of Basic Latin
\* (A-Z) and of Latin-1 (U+00C0-U+00DE but the sign U+00D7) map to the letter 32
\* above; the other code units below U+0100 and the white space map to themselves.
LowerChar(c) ==
    CASE c \in 65..90 \/ c \in 192..214 \/ c \in 216..222 -> c + 32
      [] /\ c \in (0..255) \cup WhiteSpace \cup LineTerminator
         /\ ~(c \in 65..90 \/ c \in 192..214 \/ c \in 216..222) -> c

ToLowerCase(s) == [i \in 1..Len(s) |-> LowerChar(s[i])]

\* String.prototype.trim: leading and trailing white space and line terminators
\* removed.
RECURSIVE TrimStart(_)
TrimStart(s) ==
    IF s # <<>> /\ Head(s) \in WhiteSpace \cup LineTerminator
    THEN TrimStart(Tail(s)) ELSE s

RECURSIVE TrimEnd(_)
TrimEnd(s) ==
    IF s # <<>> /\ s[Len(s)] \in WhiteSpace \cup LineTerminator
    THEN TrimEnd(SubSeq(s, 1, Len(s) - 1)) ELSE s

Trim(s) == TrimEnd(TrimStart(s))

\* String.prototype.includes
Includes(s, needle) ==
    \E i \in 0..(Len(s) - Len(needle)) : SubSeq(s, i + 1, i + Len(needle)) = needle

\* The default comparator of Array.prototype.sort on strings: a < b by code units.
RECURSIVE StrLess(_, _)
StrLess(a, b) ==
    IF b = <<>> THEN FALSE
    ELSE IF a = <<>> THEN TRUE
    ELSE IF Head(a) # Head(b) THEN Head(a) < Head(b)
    ELSE StrLess(Tail(a), Tail(b))

\* "All"
All == <<65, 108, 108>>

-----------------------------------------------------------------------------
(* Natural numbers of any size: the limbs in base 2^15, least significant    *)
(* first, the last limb not 0; zero is the empty sequence.                   *)

LimbBits == 15
LimbBase == 2 ^ 15

Pow2(k) == 2 ^ k

BigNorm(a) ==
    LET used == {i \in 1..Len(a) : a[i] # 0}
    IN  IF used = {} THEN <<>>
        ELSE SubSeq(a, 1, CHOOSE i \in used : \A j \in used : j <= i)

RECURSIVE BigFromInt(_)
BigFromInt(i) == IF i = 0 THEN <<>> ELSE <<i % LimbBase>> \o BigFromInt(i \div LimbBase)


\* -1, 0 or 1 as a < b, a = b or a > b.
BigCompare(a, b) ==
    IF Len(a) # Len(b) THEN (IF Len(a) < Len(b) THEN -1 ELSE 1)
    ELSE LET differ == {i \in 1..Len(a) : a[i] # b[i]}
         IN  IF differ = {} THEN 0
             ELSE LET top == CHOOSE i \in differ : \A j \in differ : j <= i
                  IN  IF a[top] < b[top] THEN -1 ELSE 1

RECURSIVE BigAddCarry(_, _, _)
BigAddCarry(a, b, carry) ==
    IF a = <<>> /\ b = <<>> THEN (IF carry = 0 THEN <<>> ELSE <<carry>>)
    ELSE LET x == (IF a = <<>> THEN 0 ELSE a[1]) + (IF b = <<>> THEN 0 ELSE b[1]) + carry
         IN  <<x % LimbBase>> \o BigAddCarry(IF a = <<>> THEN a ELSE Tail(a),
                                             IF b = <<>> THEN b ELSE Tail(b),
                                             x \div LimbBase)

BigAdd(a, b) == BigAddCarry(a, b, 0)

RECURSIVE BigSubBorrow(_, _, _)
BigSubBorrow(a, b, borrow) ==
    IF a = <<>> THEN <<>>
    ELSE LET x == a[1] - (IF b = <<>> THEN 0 ELSE b[1]) - borrow
         IN  <<x % LimbBase>> \o BigSubBorrow(Tail(a), IF b = <<>> THEN b ELSE Tail(b),
                                              IF x < 0 THEN 1 ELSE 0)

\* a - b, for a >= b
BigSub(a, b) == BigNorm(BigSubBorrow(a, b, 0))

RECURSIVE BigTimesCarry(_, _, _)
BigTimesCarry(a, k, carry) ==
    IF a = <<>> THEN (IF carry = 0 THEN <<>> ELSE <<carry>>)
    ELSE LET x == a[1] * k + carry
         IN  <<x % LimbBase>> \o BigTimesCarry(Tail(a), k, x \div LimbBase)

\* a * k, for 0 <= k <= 2^15
BigTimes(a, k) == IF k = 0 THEN <<>> ELSE BigTimesCarry(a, k, 0)

RECURSIVE BigMul(_, _)
BigMul(a, b) ==
    IF a = <<>> \/ b = <<>> THEN <<>>
    ELSE LET rest == BigMul(a, Tail(b))
         IN  BigAdd(BigTimes(a, b[1]), IF rest = <<>> THEN <<>> ELSE <<0>> \o rest)

\* a * 2^k
BigShiftLeft(a, k) ==
    IF a = <<>> THEN <<>>
    ELSE [i \in 1..(k \div LimbBits) |-> 0] \o BigTimes(a, Pow2(k % LimbBits))

\* floor(a / 2^k)
BigShiftRight(a, k) ==
    LET drop == k \div LimbBits
        low == Pow2(k % LimbBits)
        high == Pow2(LimbBits - (k % LimbBits))
    IN  IF drop >= Len(a) THEN <<>>
        ELSE BigNorm([i \in 1..(Len(a) - drop) |->
                         (a[i + drop] \div low)
                         + (IF i + drop < Len(a) THEN (a[i + drop + 1] % low) * high ELSE 0)])

\* The number of binary digits of x, for 0 <= x < 2^15.
IntBitLength(x) == CHOOSE k \in 0..LimbBits : x < Pow2(k) /\ (k = 0 \/ Pow2(k - 1) <= x)

\* The number of binary digits of a.
BigBitLength(a) ==
    IF a = <<>> THEN 0 ELSE LimbBits * (Len(a) - 1) + IntBitLength(a[Len(a)])

BigIsOdd(a) == a # <<>> /\ a[1] % 2 = 1

\* The number of 0 digits below the lowest 1 digit of x, for 0 < x < 2^15.
IntTrailingZeros(x) == CHOOSE k \in 0..LimbBits : x % Pow2(k) = 0 /\ x % Pow2(k + 1) # 0

\* The number of 0 digits below the lowest 1 digit of a, for a > 0.
BigTrailingZeros(a) ==
    LET first == CHOOSE i \in 1..Len(a) : a[i] # 0 /\ \A j \in 1..(i - 1) : a[j] = 0
    IN  LimbBits * (first - 1) + IntTrailingZeros(a[first])

DigitBits == 4

\* One step of the long division of r by d, for r < 16 * d: the next digit of 4
\* bits joins the quotient q, and the remainder moves up by one digit.
BigDivideStep(q, r, d) ==
    LET digit == CHOOSE t \in 0..(Pow2(DigitBits) - 1) :
                     /\ BigCompare(BigTimes(d, t), r) <= 0
                     /\ BigCompare(BigTimes(d, t + 1), r) > 0
    IN  <<BigAdd(BigTimes(q, Pow2(DigitBits)), BigFromInt(digit)),
          BigTimes(BigSub(r, BigTimes(d, digit)), Pow2(DigitBits))>>

\* <<q, r, steps>> after the steps of long division that bring the quotient q
\* to `bits' binary digits or more, from at == <<q, r, steps>>.
RECURSIVE BigDivideDigits(_, _, _)
BigDivideDigits(at, d, bits) ==
    IF BigBitLength(at[1]) >= bits THEN at
    ELSE BigDivideDigits(BigDivideStep(at[1], at[2], d) \o <<at[3] + 1>>, d, bits)

-----------------------------------------------------------------------------
(* Numbers: IEEE-754 binary64.  A finite double is [neg, m, e], of value       *)
(* m * 2^e (negated when neg) with m odd and below 2^53; zero is m = <<>>,     *)
(* e = 0.  NaN is the record of m = <<>> and e = 1024, the exponent that the   *)
(* encoding keeps for what is not a finite number.  -0 is not told from 0, and *)
(* exponents are not limited: the program's numbers come from integers below  *)
(* 2^31 and are never near overflow or underflow.  The infinities are left    *)
(* out: they arise only from a number other than 0 divided by 0, and the one  *)
(* divisor of the program that may be 0, the length of a view history, has    *)
(* the dividend 0 with it.                                                    *)

MantissaBits == 53

Zero == [neg |-> FALSE, m |-> <<>>, e |-> 0]

NaN == [neg |-> FALSE, m |-> <<>>, e |-> 1024]

\* The double of value m * 2^e, for m of at most 53 binary digits and `zeros' the
\* number of 0 digits below its lowest 1 digit.
ExactShifted(neg, m, e, zeros) ==
    [neg |-> neg, m |-> BigShiftRight(m, zeros), e |-> e + zeros]

\* The double of value m * 2^e, for m of at most 53 binary digits.
Exact(neg, m, e) ==
    IF m = <<>> THEN Zero ELSE ExactShifted(neg, m, e, BigTrailingZeros(m))

\* The double nearest to (kept + f) * 2^e, where the fraction f is below, at or
\* above 1/2 as order is -1, 0 or 1, and `inexact' tells that f is more than the
\* digits compared say: a tie goes to the even mantissa.
RoundedFrom(neg, kept, e, order, inexact) ==
    Exact(neg,
          IF order > 0 \/ (order = 0 /\ (inexact \/ BigIsOdd(kept)))
          THEN BigAdd(kept, <<1>>) ELSE kept,
          e)

\* x.m with its lowest `cut' digits dropped, and the order of the dropped digits
\* to one half of the last digit kept.
RoundedAt(x, cut, kept, inexact) ==
    RoundedFrom(x.neg, kept, x.e + cut,
                BigCompare(BigSub(x.m, BigShiftLeft(kept, cut)),
                           BigShiftLeft(<<1>>, cut - 1)),
                inexact)

\* The double nearest to (x.m + f) * 2^x.e (negated when x.neg), a tie going to
\* the even mantissa, where 0 < f < 1 if inexact and f = 0 otherwise; an inexact
\* x.m has 55 digits or more.
Rounded(x, inexact) ==
    IF BigBitLength(x.m) <= MantissaBits THEN Exact(x.neg, x.m, x.e)
    ELSE RoundedAt(x, BigBitLength(x.m) - MantissaBits,
                   BigShiftRight(x.m, BigBitLength(x.m) - MantissaBits), inexact)

\* A number literal or an integer value, |i| < 2^31.
FromInt(i) == Exact(i < 0, BigFromInt(IF i < 0 THEN -i ELSE i), 0)

\* unary -; -NaN is NaN
Negate(a) == IF a.m = <<>> THEN a ELSE [neg |-> ~a.neg, m |-> a.m, e |-> a.e]

\* The exact sum of am * 2^e, negated when aneg, and bm * 2^e, negated when bneg.
AlignedSum(aneg, am, bneg, bm, e) ==
    IF aneg = bneg THEN [neg |-> aneg, m |-> BigAdd(am, bm), e |-> e]
    ELSE IF am = bm THEN Zero
    ELSE IF BigCompare(am, bm) > 0 THEN [neg |-> aneg, m |-> BigSub(am, bm), e |-> e]
    ELSE [neg |-> bneg, m |-> BigSub(bm, am), e |-> e]

\* The exact sum of two doubles, with the lower exponent e of the two:
\* [neg, m, e] with m of any size.
ExactSumAt(a, b, e) ==
    AlignedSum(a.neg, BigShiftLeft(a.m, a.e - e), b.neg, BigShiftLeft(b.m, b.e - e), e)

\* The exact sum of two finite doubles.
ExactSum(a, b) == ExactSumAt(a, b, IF a.e < b.e THEN a.e ELSE b.e)

\* a + b
Plus(a, b) == IF a = NaN \/ b = NaN THEN NaN ELSE Rounded(ExactSum(a, b), FALSE)

\* a - b
Minus(a, b) == Plus(a, Negate(b))

\* a * b
Times(a, b) ==
    IF a = NaN \/ b = NaN THEN NaN
    ELSE Rounded([neg |-> a.neg # b.neg, m |-> BigMul(a.m, b.m), e |-> a.e + b.e], FALSE)

\* The double nearest to the quotient that the long division `digits' found, of
\* exponent e before the division.
Quotient(neg, e, digits) ==
    Rounded([neg |-> neg, m |-> digits[1], e |-> e - DigitBits * (digits[3] - 1)],
            digits[2] # <<>>)

\* a / b for a, b # 0, where b.m has `shift' binary digits more than a.m: the
\* mantissas are brought to the same number of digits, then divided to 55
\* binary digits or more.
DivideAligned(a, b, shift) ==
    Quotient(a.neg # b.neg, a.e - b.e - shift,
             BigDivideDigits(<<<<>>, IF shift > 0 THEN BigShiftLeft(a.m, shift) ELSE a.m, 0>>,
                             IF shift < 0 THEN BigShiftLeft(b.m, -shift) ELSE b.m,
                             MantissaBits + 2))

\* a / b: NaN if a or b is NaN, and for 0 / 0; no value for another number
\* divided by 0.  A divisor that is a power of two only moves the exponent.
Divide(a, b) ==
    IF a = NaN \/ b = NaN \/ (a.m = <<>> /\ b.m = <<>>) THEN NaN
    ELSE CASE b.m # <<>> ->
             IF a.m = <<>> THEN Zero
             ELSE IF b.m = <<1>> THEN [neg |-> a.neg # b.neg, m |-> a.m, e |-> a.e - b.e]
             ELSE DivideAligned(a, b, BigBitLength(b.m) - BigBitLength(a.m))

\* a < b; false if a or b is NaN
Less(a, b) == a # NaN /\ b # NaN /\ ExactSum(a, Negate(b)).neg

\* Math.min(a, b)
MathMin(a, b) ==
    IF a = NaN \/ b = NaN THEN NaN ELSE IF Less(b, a) THEN b ELSE a

\* floor(m / 2^k + 1/2), for k > 0
BigRoundHalfUp(m, k) == BigShiftRight(BigAdd(m, BigShiftLeft(<<1>>, k - 1)), k)

\* -floor(1/2 - m / 2^k), for k > 0
BigRoundHalfDown(m, k) ==
    IF BigCompare(m, BigShiftLeft(<<1>>, k - 1)) <= 0 THEN <<>>
    ELSE BigShiftRight(BigAdd(BigSub(m, BigShiftLeft(<<1>>, k - 1)),
                              BigSub(BigShiftLeft(<<1>>, k), <<1>>)),
                       k)

\* Math.round: floor(a + 1/2); NaN for NaN.  A double of exponent 0 or more is
\* an integer.
MathRound(a) ==
    IF a = NaN \/ a.e >= 0 THEN a
    ELSE IF a.neg THEN Exact(TRUE, BigRoundHalfDown(a.m, -a.e), 0)
    ELSE Exact(FALSE, BigRoundHalfUp(a.m, -a.e), 0)

-----------------------------------------------------------------------------
(* The pure functions of page.tsx *)

\* The healthy engagement rate, 0.08.
HealthyRate == Divide(FromInt(2), FromInt(25))

\* opportunityScore without Math.min.
OpportunityScoreUnclamped(avgViews, subscribers) ==
    IF subscribers = 0 THEN Zero
    ELSE LET engagementRate == Divide(avgViews, FromInt(subscribers))
             normalized == Divide(engagementRate, HealthyRate)
         IN  MathRound(Times(Minus(FromInt(1), normalized), FromInt(100)))

\* opportunityScore
OpportunityScore(avgViews, subscribers) ==
    IF subscribers = 0 THEN Zero
    ELSE LET engagementRate == Divide(avgViews, FromInt(subscribers))
             normalized == MathMin(Divide(engagementRate, HealthyRate), FromInt(1))
         IN  MathRound(Times(Minus(FromInt(1), normalized), FromInt(100)))

\* One element of scoredLeads: the lead with averageViews and score added.
Enriched(lead, averageViews) ==
    [channelName      |-> lead.channelName,
     channelHandle    |-> lead.channelHandle,
     niche            |-> lead.niche,
     country          |-> lead.country,
     subscribers      |-> lead.subscribers,
     recentVideoViews |-> lead.recentVideoViews,
     averageViews     |-> averageViews,
     score            |-> OpportunityScore(averageViews, lead.subscribers)]

\* The callback of leads.map.  The average of an empty history is 0 / 0, NaN.
ScoreLead(lead) ==
    Enriched(lead, Divide(FromInt(SumSeq(lead.recentVideoViews)),
                          FromInt(Len(lead.recentVideoViews))))

ScoredLeads(ls) == [i \in 1..Len(ls) |-> ScoreLead(ls[i])]

\* search.toLowerCase() without the trim.
NormalizedSearchUntrimmed(s) == ToLowerCase(s)

\* const normalizedSearch = search.trim().toLowerCase()
NormalizedSearch(s) == ToLowerCase(Trim(s))

\* The callback of scoredLeads.filter
LeadMatches(lead, normalizedSearch, niche, country) ==
    LET matchesSearch ==
            \/ normalizedSearch = <<>>
            \/ Includes(ToLowerCase(lead.channelName), normalizedSearch)
            \/ Includes(ToLowerCase(lead.channelHandle), normalizedSearch)
        matchesNiche == niche = All \/ lead.niche = niche
        matchesCountry == country = All \/ lead.country = country
    IN  matchesSearch /\ matchesNiche /\ matchesCountry

\* const data = scoredLeads.filter(...)
FilterLeads(scored, s, niche, country) ==
    LET normalizedSearch == NormalizedSearch(s)
        kept[i \in 0..Len(scored)] ==
            IF i = 0 THEN <<>>
            ELSE IF LeadMatches(scored[i], normalizedSearch, niche, country)
                 THEN Append(kept[i - 1], scored[i])
                 ELSE kept[i - 1]
    IN  kept[Len(scored)]

\* The comparator without the sign flip of the direction.
CompareLeadsIgnoringDirection(a, b, key, direction) ==
    IF key = "opportunity" THEN Minus(a.score, b.score)
    ELSE IF key = "subscribers" THEN FromInt(a.subscribers - b.subscribers)
    ELSE Minus(a.averageViews, b.averageViews)

\* sortDirection === "asc" ? compareValue : -compareValue
Directed(compareValue, direction) ==
    IF direction = "asc" THEN compareValue ELSE Negate(compareValue)

\* The comparator of [...data].sort
CompareLeads(a, b, key, direction) ==
    Directed(IF key = "opportunity" THEN Minus(a.score, b.score)
             ELSE IF key = "subscribers" THEN FromInt(a.subscribers - b.subscribers)
             ELSE Minus(a.averageViews, b.averageViews),
             direction)

\* The three comparators handed to Array.prototype.sort: none (the default, strings
\* by code units), (a, b) => a - b on numbers, and CompareLeads under a key and a
\* direction.
DefaultComparator == [kind |-> "default"]
NumberComparator == [kind |-> "number"]
LeadComparator(key, direction) == [kind |-> "lead", key |-> key, direction |-> direction]

\* The comparator's result on (a, b) is negative: a is to come before b.  A
\* result of NaN counts as 0.
ComesBefore(comparator, a, b) ==
    CASE comparator.kind = "default" -> StrLess(a, b)
      [] comparator.kind = "number" -> Minus(a, b).neg
      [] comparator.kind = "lead" ->
             CompareLeads(a, b, comparator.key, comparator.direction).neg

\* The comparator's result on (a, b) is NaN.
ComparesNaN(comparator, a, b) ==
    CASE comparator.kind = "default" -> FALSE
      [] comparator.kind = "number" -> Minus(a, b) = NaN
      [] comparator.kind = "lead" ->
             CompareLeads(a, b, comparator.key, comparator.direction) = NaN

\* The comparator is not a consistent one for the elements of s.  A difference is
\* NaN exactly when one of its terms is, that is when the term compared with
\* itself gives NaN.  Such an element compares as equal to every other, so any
\* two elements that do not compare as equal break the transitivity of that
\* equality; if all compare as equal, the comparator is consistent.
Inconsistent(s, comparator) ==
    /\ \E i \in 1..Len(s) : ComparesNaN(comparator, s[i], s[i])
    /\ \E i, j \in 1..Len(s) : ComesBefore(comparator, s[i], s[j])

\* One insertion of a stable sort: x goes before the first element it is to come
\* before, hence after every element it compares equal to.
InsertAt(x, s, at) == SubSeq(s, 1, at - 1) \o <<x>> \o SubSeq(s, at, Len(s))

\* The least of a set of positions, or `otherwise' if there is none.
FirstOf(positions, otherwise) ==
    IF positions = {} THEN otherwise
    ELSE CHOOSE p \in positions : \A q \in positions : p <= q

InsertSorted(x, s, comparator) ==
    InsertAt(x, s, FirstOf({p \in 1..Len(s) : ComesBefore(comparator, x, s[p])},
                           Len(s) + 1))

\* The one result of a stable sort by a consistent comparator: elements are
\* inserted in input order.
StableSort(s, comparator) ==
    LET done[i \in 0..Len(s)] ==
            IF i = 0 THEN <<>> ELSE InsertSorted(s[i], done[i - 1], comparator)
    IN  done[Len(s)]

\* The rearrangements of a list.
Rearrangements(s) ==
    { [i \in 1..Len(s) |-> s[p[i]]] :
      p \in {q \in [1..Len(s) -> 1..Len(s)] : \A i, j \in 1..Len(s) : i # j => q[i] # q[j]} }

\* Array.prototype.sort: the lists it may return.  The sort is stable (ECMAScript
\* 2019); by a comparator that is not consistent the order is
\* implementation-defined.
Sort(s, comparator) ==
    IF Inconsistent(s, comparator) THEN Rearrangements(s)
    ELSE {StableSort(s, comparator)}

\* A sort that is not stable: leads of equal key come out in reverse input order.
SortLeadsTiesReversed(data, key, direction) ==
    {StableSort([i \in 1..Len(data) |-> data[Len(data) + 1 - i]],
                LeadComparator(key, direction))}

\* const sorted = [...data].sort(...): the lists it may return
SortLeads(data, key, direction) == Sort(data, LeadComparator(key, direction))

\* new Set(values): the distinct values in order of first occurrence.
RECURSIVE Distinct(_)
Distinct(s) ==
    IF s = <<>> THEN <<>>
    ELSE LET front == SubSeq(s, 1, Len(s) - 1)
         IN  IF s[Len(s)] \in Range(front) THEN Distinct(front)
             ELSE Distinct(front) \o <<s[Len(s)]>>

\* Array.from(new Set(values)) without the sort.
UniqueUnsorted(values) == Distinct(values)

\* Array.from(new Set(values)).sort(); the default comparator is consistent.
UniqueSorted(values) == StableSort(Distinct(values), DefaultComparator)

\* leads.map((lead) => lead.niche), leads.map((lead) => lead.country)
NichesOf(ls) == [i \in 1..Len(ls) |-> ls[i].niche]
CountriesOf(ls) == [i \in 1..Len(ls) |-> ls[i].country]

UniqueNiches(ls) == UniqueSorted(NichesOf(ls))
UniqueCountries(ls) == UniqueSorted(CountriesOf(ls))

\* The values the filteredLeads memo may take.
ComputeFilteredLeads(scored, s, niche, country, key, direction) ==
    SortLeads(FilterLeads(scored, s, niche, country), key, direction)

\* values.sort((a, b) => a - b): the lists it may return
SortNumbers(values) == Sort(values, NumberComparator)

\* A median that takes values[mid] for every count.
MedianUpperMiddle(values) ==
    LET mid == Len(values) \div 2
    IN  values[mid + 1]

\* const median = (values) => ...; values[mid] of the code is values[mid + 1] here.
Median(values) ==
    LET mid == Len(values) \div 2
    IN  IF Len(values) % 2 = 0
        THEN Divide(Plus(values[mid], values[mid + 1]), FromInt(2))
        ELSE values[mid + 1]

\* filteredLeads.map((lead) => lead.score), .map((lead) => lead.averageViews)
ScoresOf(fl) == [i \in 1..Len(fl) |-> fl[i].score]
ViewsOf(fl) == [i \in 1..Len(fl) |-> fl[i].averageViews]

\* filteredLeads.reduce((acc, lead) => acc + lead.subscribers, 0)
SumSubscribers(fl) ==
    LET acc[i \in 0..Len(fl)] == IF i = 0 THEN 0 ELSE acc[i - 1] + fl[i].subscribers
    IN  acc[Len(fl)]

\* The aggregate without the branch for an empty list: the median of no values,
\* (undefined + undefined) / 2, is NaN.
AggregateNoFallback(fl) ==
    IF Len(fl) = 0
    THEN {[totalSubscribers |-> 0, medianScore |-> NaN, medianViews |-> NaN]}
    ELSE { [totalSubscribers |-> SumSubscribers(fl),
            medianScore      |-> MathRound(Median(sortedScores)),
            medianViews      |-> MathRound(Median(sortedViews))] :
           sortedScores \in SortNumbers(ScoresOf(fl)),
           sortedViews \in SortNumbers(ViewsOf(fl)) }

\* The aggregate with the medians taken of the values in list order.
AggregateUnsorted(fl) ==
    IF Len(fl) = 0
    THEN {[totalSubscribers |-> 0, medianScore |-> Zero, medianViews |-> Zero]}
    ELSE {[totalSubscribers |-> SumSubscribers(fl),
           medianScore      |-> MathRound(Median(ScoresOf(fl))),
           medianViews      |-> MathRound(Median(ViewsOf(fl)))]}

\* The values the aggregate memo may take: one for each pair of lists that the
\* two sorts may return.
Aggregate(fl) ==
    IF Len(fl) = 0
    THEN {[totalSubscribers |-> 0, medianScore |-> Zero, medianViews |-> Zero]}
    ELSE { [totalSubscribers |-> SumSubscribers(fl),
            medianScore      |-> MathRound(Median(sortedScores)),
            medianViews      |-> MathRound(Median(sortedViews))] :
           sortedScores \in SortNumbers(ScoresOf(fl)),
           sortedViews \in SortNumbers(ViewsOf(fl)) }

\* {filteredLeads.length === 0 && <tr>No leads match the filters...</tr>}
NoMatchesRowShown(fl) == Len(fl) = 0

\* The dependency list with sortDirection left out.
FilteredLeadsDepsWithoutDirection(scored, s, niche, country, key, direction) ==
    <<scored, s, niche, country, key>>

\* The dependency list of the filteredLeads memo.
FilteredLeadsDeps(scored, s, niche, country, key, direction) ==
    <<scored, s, niche, country, key, direction>>

\* The onClick without setSortDirection("desc") on a new key.
SortAfterClickKeepingDirection(key, direction, clicked) ==
    IF key = clicked
    THEN [sortKey |-> key, sortDirection |-> IF direction = "asc" THEN "desc" ELSE "asc"]
    ELSE [sortKey |-> clicked, sortDirection |-> direction]

\* The onClick of a sort button.
SortAfterClick(key, direction, clicked) ==
    IF key = clicked
    THEN [sortKey |-> key, sortDirection |-> IF direction = "asc" THEN "desc" ELSE "asc"]
    ELSE [sortKey |-> clicked, sortDirection |-> "desc"]

-----------------------------------------------------------------------------
(* Inputs *)

Lead(name, handle, niche, country, subscribers, views) ==
    [channelName |-> name, channelHandle |-> handle, niche |-> niche,
     country |-> country, subscribers |-> subscribers, recentVideoViews |-> views]

\* Records a dataset is drawn from.  Handles are unique; the first and the third
\* agree on average views, the second and the third on subscribers, the second and
\* the fourth on score, a score that the rounding of the doubles decides: the
\* exact value of (1 - normalized) * 100 is 12.5 for both, the double is below it.
LeadPool ==
    { \* "Fin A", "@fa", "Fin", "US"
      Lead(<<70, 105, 110, 32, 65>>, <<64, 102, 97>>, <<70, 105, 110>>, <<85, 83>>,
           100000, <<2000>>),
      \* "Biz B", "@bb", "Biz", "US"
      Lead(<<66, 105, 122, 32, 66>>, <<64, 98, 98>>, <<66, 105, 122>>, <<85, 83>>,
           50000, <<3500>>),
      \* "ab", "@AB", "Fin", "US"
      Lead(<<97, 98>>, <<64, 65, 66>>, <<70, 105, 110>>, <<85, 83>>,
           50000, <<1000, 3000>>),
      \* "B a", "@z", "Fi", "UK"
      Lead(<<66, 32, 97>>, <<64, 122>>, <<70, 105>>, <<85, 75>>,
           100, <<6, 8>>) }

\* The datasets explored: up to MaxLeads records of the pool, in any order.
Datasets ==
    UNION { {s \in [1..n -> LeadPool] : \A i, j \in 1..n : i # j => s[i] # s[j]} :
            n \in 0..MaxLeads }

\* Values of the search box, a single-line text input, whose value holds no LF
\* and no CR: "", " ", TAB "AB" SP (a pasted tab, a typed space), "b", "zz".
SearchInputs ==
    { <<>>, <<32>>, <<9, 65, 66, 32>>, <<98>>, <<122, 122>> }

SortKeys == {"opportunity", "subscribers", "recentViews"}

\* Datasets of one record over a grid of subscriber counts and view histories.
MaxViews == 2
ScoreSubscribers == {0, 1, 100, 2500, 50000, 100000}
ScoreViews == {0, 7, 2000, 8000}
ScoreDatasets ==
    { <<Lead(<<70, 105, 110, 32, 65>>, <<64, 102, 97>>, <<70, 105, 110>>, <<85, 83>>,
             subs, views)>> :
      subs \in ScoreSubscribers,
      views \in UNION {[1..n -> ScoreViews] : n \in 1..MaxViews} }

-----------------------------------------------------------------------------
(* The component *)

\* The first render: the initial useState values and every memo computed.
Mount(dataset) ==
    /\ leads = dataset
    /\ search = <<>>
    /\ selectedNiche = All
    /\ selectedCountry = All
    /\ sortKey = "opportunity"
    /\ sortDirection = "desc"
    /\ uniqueNiches = UniqueNiches(dataset)
    /\ uniqueCountries = UniqueCountries(dataset)
    /\ scoredLeads = ScoredLeads(dataset)
    /\ filteredLeads \in
           ComputeFilteredLeads(scoredLeads, search, selectedNiche, selectedCountry,
                                sortKey, sortDirection)
    /\ aggregate \in Aggregate(filteredLeads)

Init == \E dataset \in Datasets : Mount(dataset)

InitScore == \E dataset \in ScoreDatasets : Mount(dataset)

\* A render after the session fields took the values s, niche, country, key,
\* direction: a memo is recomputed when one of its dependencies changed, and kept
\* otherwise.  The memos with an empty dependency list are never recomputed.  The
\* aggregate memo depends on the filteredLeads array, which is a new array exactly
\* when the filteredLeads memo was recomputed.
Render(s, niche, country, key, direction) ==
    LET recomputed ==
            FilteredLeadsDeps(scoredLeads, s, niche, country, key, direction)
              # FilteredLeadsDeps(scoredLeads, search, selectedNiche, selectedCountry,
                                  sortKey, sortDirection)
    IN  /\ filteredLeads' \in
               IF recomputed
               THEN ComputeFilteredLeads(scoredLeads, s, niche, country, key, direction)
               ELSE {filteredLeads}
        /\ aggregate' \in IF recomputed THEN Aggregate(filteredLeads') ELSE {aggregate}
        /\ UNCHANGED <<leads, uniqueNiches, uniqueCountries, scoredLeads>>

\* onChange of the search input
SetSearch(s) ==
    /\ search' = s
    /\ UNCHANGED <<selectedNiche, selectedCountry, sortKey, sortDirection>>
    /\ Render(s, selectedNiche, selectedCountry, sortKey, sortDirection)

\* onChange of the niche select, whose options are "All" and uniqueNiches
SetSelectedNiche(niche) ==
    /\ selectedNiche' = niche
    /\ UNCHANGED <<search, selectedCountry, sortKey, sortDirection>>
    /\ Render(search, niche, selectedCountry, sortKey, sortDirection)

\* onChange of the country select, whose options are "All" and uniqueCountries
SetSelectedCountry(country) ==
    /\ selectedCountry' = country
    /\ UNCHANGED <<search, selectedNiche, sortKey, sortDirection>>
    /\ Render(search, selectedNiche, country, sortKey, sortDirection)

\* onClick of the sort button of key `clicked`
SortClick(clicked) ==
    LET next == SortAfterClick(sortKey, sortDirection, clicked)
    IN  /\ sortKey' = next.sortKey
        /\ sortDirection' = next.sortDirection
        /\ UNCHANGED <<search, selectedNiche, selectedCountry>>
        /\ Render(search, selectedNiche, selectedCountry, next.sortKey, next.sortDirection)

Next ==
    \/ \E s \in SearchInputs : SetSearch(s)
    \/ \E niche \in {All} \cup Range(uniqueNiches) : SetSelectedNiche(niche)
    \/ \E country \in {All} \cup Range(uniqueCountries) : SetSelectedCountry(country)
    \/ \E clicked \in SortKeys : SortClick(clicked)

Spec == Init /\ [][Next]_vars

SpecScore == InitScore /\ [][Next]_vars

-----------------------------------------------------------------------------
(* Vocabulary of the properties *)

\* The output of the filter stage in the current state.
FilterStageOutput == FilterLeads(scoredLeads, search, selectedNiche, selectedCountry)

Reverse(s) == [i \in 1..Len(s) |-> s[Len(s) + 1 - i]]

Flip(direction) == IF direction = "asc" THEN "desc" ELSE "asc"

\* The value a lead is ranked by under a sort key.
SortKeyValue(lead, key) ==
    CASE key = "opportunity" -> lead.score
      [] key = "subscribers" -> FromInt(lead.subscribers)
      [] key = "recentViews" -> lead.averageViews

\* needle occurs in s as a block of consecutive characters.
IsSubstring(needle, s) ==
    \E from \in 1..(Len(s) + 1), to \in 0..Len(s) :
        /\ to - from + 1 = Len(needle)
        /\ \A k \in 1..Len(needle) : s[from + k - 1] = needle[k]

\* The k-th smallest member of a set of indices.
KthIndex(indices, k) ==
    CHOOSE i \in indices : Cardinality({j \in indices : j < i}) = k - 1

\* sub consists of the elements of s at the positions `indices`, in the order of s.
IsSubsequenceAt(sub, s, indices) ==
    /\ Len(sub) = Cardinality(indices)
    /\ \A k \in 1..Len(sub) : sub[k] = s[KthIndex(indices, k)]

\* a precedes b lexicographically by code units.
LexBefore(a, b) ==
    \E k \in 1..(Len(b)) :
        /\ \A m \in 1..(k - 1) : m <= Len(a) /\ a[m] = b[m]
        /\ \/ Len(a) = k - 1
           \/ Len(a) >= k /\ a[k] < b[k]

IsLexSortedNoDuplicates(s) ==
    \A i \in 1..(Len(s) - 1) : LexBefore(s[i], s[i + 1])

\* The position of the lead of a given handle in a list.
PositionOf(list, handle) == CHOOSE p \in 1..Len(list) : list[p].channelHandle = handle

\* The value of rank k (1 = smallest) among the values of a sequence.
ValueOfRank(values, k) ==
    LET i == CHOOSE i \in 1..Len(values) :
                 /\ Cardinality({j \in 1..Len(values) : ~Less(values[i], values[j])}) >= k
                 /\ Cardinality({j \in 1..Len(values) : ~Less(values[j], values[i])})
                        >= Len(values) - k + 1
    IN  values[i]

\* The median of a non-empty sequence of numbers, by rank; the mean of the two
\* middle numbers is taken in the arithmetic of the numbers.
MedianByRank(values) ==
    LET half == Len(values) \div 2
    IN  IF Len(values) % 2 = 1 THEN ValueOfRank(values, half + 1)
        ELSE Divide(Plus(ValueOfRank(values, half), ValueOfRank(values, half + 1)),
                    FromInt(2))

\* The integers 0..100 as numbers.
ScoreValues == {FromInt(k) : k \in 0..100}

\* 2 * a, for a finite number a.
Twice(a) == IF a.m = <<>> THEN a ELSE [neg |-> a.neg, m |-> a.m, e |-> a.e + 1]

\* r is an integer nearest to the finite number x: |2 * r - 2 * x| <= 1, exactly.
IsNearestInteger(r, x) ==
    LET diff == ExactSum(Twice(r), Negate(Twice(x)))
    IN  /\ r # NaN
        /\ r.e >= 0
        /\ IF diff.e >= 0 THEN BigCompare(BigShiftLeft(diff.m, diff.e), <<1>>) <= 0
           ELSE BigCompare(diff.m, BigShiftLeft(<<1>>, -diff.e)) <= 0

-----------------------------------------------------------------------------
(* Properties *)

\* C1: the session starts at (opportunity, desc); a click on the current sort key
\* keeps the key and flips the direction, a click on another key selects it with
\* direction desc whatever the direction was.
C1_SortClick ==
    /\ sortKey = "opportunity" /\ sortDirection = "desc"
    /\ [][\A clicked \in SortKeys :
            SortClick(clicked) =>
                IF clicked = sortKey
                THEN sortKey' = sortKey /\ sortDirection' = Flip(sortDirection)
                ELSE sortKey' = clicked /\ sortDirection' = "desc"]_vars

\* A key other than the initial one, ascending: reached by selecting it, then
\* clicking it again.
C1_Witness == sortKey = "subscribers" /\ sortDirection = "asc"

\* C2: the score of a lead with subscribers > 0 is an integer in 0..100, and the
\* score of a lead with no subscribers is 0, whatever its average views.
C2_ScoreRange ==
    \A i \in 1..Len(scoredLeads) :
        LET lead == scoredLeads[i]
        IN  /\ lead.subscribers > 0 => lead.score \in ScoreValues
            /\ lead.subscribers = 0 => lead.score = Zero

\* A lead whose engagement rate exceeds 0.08, where the clamp decides the score.
C2_Witness ==
    \E i \in 1..Len(scoredLeads) :
        LET lead == scoredLeads[i]
        IN  /\ lead.subscribers > 0
            /\ 25 * SumSeq(lead.recentVideoViews)
                   > 2 * Len(lead.recentVideoViews) * lead.subscribers
            /\ lead.score = Zero

\* C3: the filter stage returns, in input order, exactly the enriched leads for
\* which the trimmed lower-cased search is empty or a substring of the lower-cased
\* name or handle, the niche is "All" or the lead's, and the country is "All" or
\* the lead's; with an empty search and both facets "All" it returns every lead.
C3_FilterStage ==
    LET wanted == ToLowerCase(Trim(search))
        Holds(lead) ==
            /\ \/ wanted = <<>>
               \/ IsSubstring(wanted, ToLowerCase(lead.channelName))
               \/ IsSubstring(wanted, ToLowerCase(lead.channelHandle))
            /\ selectedNiche = All \/ lead.niche = selectedNiche
            /\ selectedCountry = All \/ lead.country = selectedCountry
        surviving == {i \in 1..Len(scoredLeads) : Holds(scoredLeads[i])}
    IN  /\ IsSubsequenceAt(FilterStageOutput, scoredLeads, surviving)
        /\ (search = <<>> /\ selectedNiche = All /\ selectedCountry = All)
               => FilterStageOutput = scoredLeads

\* A search that matches only after trimming and lower-casing, with a facet set,
\* keeping one lead of three.
C3_Witness ==
    /\ search = <<9, 65, 66, 32>>
    /\ selectedCountry # All
    /\ Len(scoredLeads) = 3
    /\ Len(FilterStageOutput) = 1

\* C4 as stated: the displayed list is the reverse of the list the opposite
\* direction produces for the same key, ties included.
C4_ReverseAlways ==
    \E opposite \in SortLeads(FilterStageOutput, sortKey, Flip(sortDirection)) :
        filteredLeads = Reverse(opposite)

\* C4 amended: when no two leads of the filtered collection have equal values of
\* the sort key, the displayed list is the reverse of the list the opposite
\* direction produces for the same key.
C4_ReverseWhenKeysDistinct ==
    (\A i, j \in 1..Len(FilterStageOutput) :
        i # j => SortKeyValue(FilterStageOutput[i], sortKey)
                     # SortKeyValue(FilterStageOutput[j], sortKey))
    => \A opposite \in SortLeads(FilterStageOutput, sortKey, Flip(sortDirection)) :
           filteredLeads = Reverse(opposite)

\* Three leads of pairwise distinct subscriber counts, sorted by subscribers.
C4_Witness ==
    /\ sortKey = "subscribers"
    /\ Len(filteredLeads) = 3
    /\ \A i, j \in 1..3 : i # j => filteredLeads[i].subscribers # filteredLeads[j].subscribers

\* C5: the sorted list is a permutation of the filtered collection, is ordered by
\* the selected key (non-decreasing for asc, non-increasing for desc), and leads
\* of equal key value keep the relative order of the filtered collection.
C5_SortStage ==
    LET data == FilterStageOutput
        sorted == filteredLeads
        Key(lead) == SortKeyValue(lead, sortKey)
    IN  /\ Len(sorted) = Len(data)
        /\ \A h \in {data[i].channelHandle : i \in 1..Len(data)}
                     \cup {sorted[p].channelHandle : p \in 1..Len(sorted)} :
               Cardinality({p \in 1..Len(sorted) : sorted[p].channelHandle = h})
                   = Cardinality({i \in 1..Len(data) : data[i].channelHandle = h})
        /\ \A p \in 1..(Len(sorted) - 1) :
               IF sortDirection = "asc"
               THEN ~Less(Key(sorted[p + 1]), Key(sorted[p]))
               ELSE ~Less(Key(sorted[p]), Key(sorted[p + 1]))
        /\ \A i, j \in 1..Len(data) :
               (i < j /\ Key(data[i]) = Key(data[j]))
               => PositionOf(sorted, data[i].channelHandle)
                      < PositionOf(sorted, data[j].channelHandle)

\* Three leads of which two tie on average views, sorted ascending by it into an
\* order other than the filtered one.
C5_Witness ==
    /\ sortKey = "recentViews"
    /\ sortDirection = "asc"
    /\ Len(filteredLeads) = 3
    /\ filteredLeads # FilterStageOutput
    /\ \E p \in 1..2 : filteredLeads[p].averageViews = filteredLeads[p + 1].averageViews

\* C6: the aggregate is that of the filter stage's output, and a sort click leaves
\* it unchanged.
C6_AggregateIgnoresSort ==
    /\ [](Aggregate(FilterStageOutput) = {aggregate})
    /\ [][(\E clicked \in SortKeys : SortClick(clicked)) => aggregate' = aggregate]_vars

\* A list of three leads that the sort has put in an order other than the
\* filtered one.
C6_Witness ==
    /\ Len(filteredLeads) = 3
    /\ sortKey = "subscribers"
    /\ filteredLeads # FilterStageOutput
    /\ filteredLeads # Reverse(FilterStageOutput)

\* C7: for a non-empty filtered collection, medianScore and medianViews are the
\* medians of the scores and of the average views rounded to a nearest integer
\* (middle element for an odd count, mean of the two middle elements for an even
\* count; the median of 10,20,30 is 20 and of 10,20,30,40 is 25), and
\* totalSubscribers is the sum of the subscriber counts.
C7_Medians ==
    LET data == FilterStageOutput
        SumTo[i \in 0..Len(data)] ==
            IF i = 0 THEN 0 ELSE SumTo[i - 1] + data[i].subscribers
    IN  /\ data # <<>> =>
               /\ aggregate.totalSubscribers = SumTo[Len(data)]
               /\ IsNearestInteger(aggregate.medianScore,
                                   MedianByRank(ScoresOf(data)))
               /\ IsNearestInteger(aggregate.medianViews,
                                   MedianByRank(ViewsOf(data)))
        /\ Median(<<FromInt(10), FromInt(20), FromInt(30)>>) = FromInt(20)
        /\ Median(<<FromInt(10), FromInt(20), FromInt(30), FromInt(40)>>) = FromInt(25)

\* Two leads of scores 75 and 12 that a country filter has left of three, listed
\* in descending order: the median 43.5 is the mean of the two and is rounded.
C7_Witness ==
    /\ Len(leads) = 3
    /\ selectedCountry # All
    /\ Len(filteredLeads) = 2
    /\ filteredLeads[1].score = FromInt(75)
    /\ filteredLeads[2].score = FromInt(12)
    /\ aggregate.medianScore = FromInt(44)

\* C8: when no lead matches, the aggregate is (0, 0, 0) and the "no matches" row
\* is shown.
C8_EmptyResult ==
    FilterStageOutput = <<>> =>
        /\ aggregate = [totalSubscribers |-> 0, medianScore |-> Zero, medianViews |-> Zero]
        /\ NoMatchesRowShown(filteredLeads)

\* A non-empty dataset of which a search, a niche, a country and a sort click have
\* left nothing.
C8_Witness ==
    /\ leads # <<>>
    /\ FilterStageOutput = <<>>
    /\ search # <<>>
    /\ selectedNiche # All
    /\ selectedCountry # All
    /\ sortKey # "opportunity"

\* C9: the niche options and the country options are the lexicographically sorted
\* duplicate-free sequences of the niches and countries of the whole dataset, in
\* every state, whatever the filter.
C9_FacetOptions ==
    /\ IsLexSortedNoDuplicates(uniqueNiches)
    /\ Range(uniqueNiches) = {leads[i].niche : i \in 1..Len(leads)}
    /\ IsLexSortedNoDuplicates(uniqueCountries)
    /\ Range(uniqueCountries) = {leads[i].country : i \in 1..Len(leads)}

\* A dataset whose niches are not in sorted order and repeat, with a filter that
\* leaves leads of fewer niches than are offered.
C9_Witness ==
    /\ Len(leads) = 3
    /\ Len(uniqueNiches) = 2
    /\ uniqueNiches[1] # leads[1].niche
    /\ selectedNiche # All
    /\ filteredLeads # <<>>
    /\ Cardinality({filteredLeads[i].niche : i \in 1..Len(filteredLeads)}) = 1

\* C10: in every state the displayed list is the sort of the filter of the
\* enriched collection by the current five session fields and the displayed
\* aggregate is the aggregate of that list; the enriched collection is that of
\* the dataset from the first render on, as neither ever changes.
C10_ViewsCurrent ==
    /\ scoredLeads = ScoredLeads(leads)
    /\ [](/\ SortLeads(FilterLeads(scoredLeads, search, selectedNiche, selectedCountry),
                       sortKey, sortDirection) = {filteredLeads}
          /\ Aggregate(filteredLeads) = {aggregate})
    /\ [][leads' = leads /\ scoredLeads' = scoredLeads]_vars

\* Every session field changed from its initial value, with leads still listed.
C10_Witness ==
    /\ search # <<>>
    /\ selectedNiche # All
    /\ selectedCountry # All
    /\ sortKey = "recentViews"
    /\ sortDirection = "asc"
    /\ Len(filteredLeads) >= 2

====
